---- MODULE Spec2Model ----
(***************************************************************************)
(* Model of blender/depsgraph/intern/eval/deg_eval_flush.cc: the flush of  *)
(* update tags through the operation nodes of a dependency graph           *)
(* (deg_graph_flush_updates) and the clearing of the tags                  *)
(* (deg_graph_clear_tags).                                                 *)
(***************************************************************************)
EXTENDS Naturals, Sequences, FiniteSets

\* ------------------------------------------------------------------ bounds
\* Most relations (DepsRelation) a graph holds.
MaxLinks == 2
\* Most calls of tag_update in one behaviour, hence most entry tags.
MaxTags == 2

\* --------------------------------------------------------------- constants
NULL == "NULL"

COMPONENT_STATE_NONE == 0
COMPONENT_STATE_SCHEDULED == 1
COMPONENT_STATE_DONE == 2

DEPSOP_FLAG_NEEDS_UPDATE == "NEEDS_UPDATE"
DEPSOP_FLAG_DIRECTLY_MODIFIED == "DIRECTLY_MODIFIED"

\* The recalc bits of ID::tag and one bit outside of the mask.
LIB_TAG_ID_RECALC_ALL == {"LIB_TAG_ID_RECALC", "LIB_TAG_ID_RECALC_DATA"}
LIB_TAG_DOIT == "LIB_TAG_DOIT"

\* ------------------------------------------------------------- node model
\* The nodes of the graphs explored: an armature object with two bone
\* components, its pose component and its copy-on-write component, and an
\* object with a particle component holding a settings evaluation operation.
IDNodes == {"armature", "emitter"}

Components == {"bone_a", "bone_b", "pose", "cow", "particles"}

Operations == {"B1", "B2", "P1", "P2", "C1", "G1", "G2"}

\* ComponentDepsNode::owner
CompOwner(comp_node) ==
    IF comp_node = "particles" THEN "emitter" ELSE "armature"

\* ComponentDepsNode::type
CompType(comp_node) ==
    CASE comp_node \in {"bone_a", "bone_b"} -> "DEG_NODE_TYPE_BONE"
      [] comp_node = "pose" -> "DEG_NODE_TYPE_EVAL_POSE"
      [] comp_node = "cow" -> "DEG_NODE_TYPE_COPY_ON_WRITE"
      [] OTHER -> "DEG_NODE_TYPE_EVAL_PARTICLES"

\* OperationDepsNode::owner
OpOwner(op_node) ==
    CASE op_node = "B1" -> "bone_a"
      [] op_node = "B2" -> "bone_b"
      [] op_node \in {"P1", "P2"} -> "pose"
      [] op_node = "C1" -> "cow"
      [] OTHER -> "particles"

\* OperationDepsNode::opcode
Opcode(op_node) ==
    IF op_node = "G1" THEN "DEG_OPCODE_PARTICLE_SETTINGS_EVAL"
                      ELSE "DEG_OPCODE_OTHER"

\* ComponentDepsNode::operations
CompOperations(comp_node) == {op \in Operations : OpOwner(op) = comp_node}

\* IDDepsNode::find_component(type): the component of that type among those
\* the graph holds, or NULL.
find_component(comps, id_node, type) ==
    LET found == {c \in comps : CompOwner(c) = id_node /\ CompType(c) = type}
    IN  IF found = {} THEN NULL ELSE CHOOSE c \in found : TRUE

\* ComponentDepsNode::get_entry_operation
get_entry_operation(comp_node) ==
    CASE comp_node = "pose" -> "P1"
      [] comp_node = "bone_a" -> "B1"
      [] comp_node = "bone_b" -> "B2"
      [] comp_node = "cow" -> "C1"
      [] OTHER -> "G2"

\* ComponentDepsNode::depends_on_cow
depends_on_cow(comp_node) ==
    CompType(comp_node) \notin
        {"DEG_NODE_TYPE_EVAL_PARTICLES", "DEG_NODE_TYPE_COPY_ON_WRITE"}

\* deg_copy_on_write_is_expanded(id_node->id_cow): the armature's copy is
\* expanded, the emitter's is not yet.
deg_copy_on_write_is_expanded(id_node) == id_node = "armature"

\* The relations the depsgraph builder may have added between the operations
\* (from, to): into a bone, bone to bone and back, bone to the entry operation
\* of the pose, out of the pose, into the settings evaluation, bone to pose.
Relations ==
    {<<"G2", "B1">>, <<"B1", "B2">>, <<"B2", "B1">>, <<"B1", "P1">>,
     <<"P1", "G2">>, <<"G2", "G1">>, <<"B2", "P2">>}

\* ---------------------------------------------------------------- state
VARIABLES
    components,         \* the components the graph holds
    outlinks,           \* OperationDepsNode::outlinks, in order
    entry_tags,         \* Depsgraph::entry_tags
    flag,               \* OperationDepsNode::flag, a set of bits
    scheduled,          \* OperationDepsNode::scheduled
    comp_done,          \* ComponentDepsNode::done
    id_done,            \* IDDepsNode::done
    id_orig_tag,        \* id_node->id_orig->tag, a set of bits
    id_cow_tag,         \* id_node->id_cow->tag, a set of bits
    use_copy_on_write,  \* what DEG_depsgraph_use_copy_on_write() returns
    queue,              \* the FlushQueue of deg_graph_flush_updates
    op_node,            \* the op_node of the flush loop, or NULL
    pc,                 \* where the caller / deg_graph_flush_updates stands
    assertion,          \* the BLI_assert that failed, or NULL
    tags,               \* calls of tag_update so far
    \* the calls made to the collaborators during the last non-empty flush
    editors_id_update,  \* deg_editors_id_update, per ID
    recalc_tag,         \* lib_id_recalc_tag, per ID
    recalc_data_tag,    \* lib_id_recalc_data_tag, per ID
    cow_tag_update,     \* cow_comp->tag_update, per ID
    \* history of the last non-empty flush
    flag0,              \* flag as it was when the flush began
    entry_tags0,        \* entry_tags as it was when the flush began
    enqueued,           \* per operation, the times it was put on the queue
    visits,             \* per operation, the times it was the loop's op_node
    pose_pushes,        \* per ID, the pushes of the pose entry operation
    \* the task pool of BLI_task_parallel_range
    par                 \* what its workers have left to do and have done

nodeVars == <<flag, scheduled, comp_done, id_done, id_orig_tag, id_cow_tag>>
loopVars == <<use_copy_on_write, queue, op_node>>
callVars == <<editors_id_update, recalc_tag, recalc_data_tag, cow_tag_update>>
histVars == <<enqueued, visits, pose_pushes>>
graphVars == <<components, outlinks>>
startVars == <<flag0, entry_tags0>>
poolVars == <<par>>
vars == <<graphVars, entry_tags, nodeVars, loopVars, pc, assertion, tags,
          callVars, startVars, histVars, poolVars>>

\* The state a flush works on, as one record.
Cur ==
    [components |-> components, outlinks |-> outlinks, assertion |-> assertion,
     entry_tags |-> entry_tags,
     flag |-> flag, scheduled |-> scheduled, comp_done |-> comp_done,
     id_done |-> id_done, id_orig_tag |-> id_orig_tag, id_cow_tag |-> id_cow_tag,
     use_copy_on_write |-> use_copy_on_write, queue |-> queue, op_node |-> op_node,
     editors_id_update |-> editors_id_update, recalc_tag |-> recalc_tag,
     recalc_data_tag |-> recalc_data_tag, cow_tag_update |-> cow_tag_update,
     enqueued |-> enqueued, visits |-> visits, pose_pushes |-> pose_pushes]

\* The next state is the record t.
Becomes(t) ==
    /\ flag' = t.flag
    /\ scheduled' = t.scheduled
    /\ comp_done' = t.comp_done
    /\ id_done' = t.id_done
    /\ id_orig_tag' = t.id_orig_tag
    /\ id_cow_tag' = t.id_cow_tag
    /\ use_copy_on_write' = t.use_copy_on_write
    /\ queue' = t.queue
    /\ op_node' = t.op_node
    /\ editors_id_update' = t.editors_id_update
    /\ recalc_tag' = t.recalc_tag
    /\ recalc_data_tag' = t.recalc_data_tag
    /\ cow_tag_update' = t.cow_tag_update
    /\ enqueued' = t.enqueued
    /\ visits' = t.visits
    /\ pose_pushes' = t.pose_pushes
    /\ assertion' = t.assertion
    /\ entry_tags' = t.entry_tags
    /\ UNCHANGED <<poolVars, graphVars, poolVars>>

\* ------------------------------------------------------------ the flush
\* flush_prepare whose ID callback leaves the components as they are.
flush_prepare_NoComponents(s) ==
    [s EXCEPT !.scheduled = [op \in Operations |-> FALSE],
              !.id_done = [id \in IDNodes |-> 0]]

\* flush_init_operation_node_func and flush_init_id_node_func over all nodes.
flush_prepare(s) ==
    [s EXCEPT !.scheduled = [op \in Operations |-> FALSE],
              !.id_done = [id \in IDNodes |-> 0],
              !.comp_done = [c \in Components |-> COMPONENT_STATE_NONE]]

\* GSET_FOREACH over graph->entry_tags, which visits them in the order `order`.
RECURSIVE flush_schedule_entrypoints(_, _)
flush_schedule_entrypoints(s, order) ==
    IF order = <<>> THEN s
    ELSE LET op == Head(order)
             t == [s EXCEPT !.queue = Append(@, op),
                            !.scheduled[op] = TRUE,
                            !.enqueued[op] = @ + 1]
         IN  flush_schedule_entrypoints(t, Tail(order))

\* flush_handle_id_node that does not look at id_node->done.
flush_handle_id_node_NoGuard(s, id_node) ==
    LET notify == IF deg_copy_on_write_is_expanded(id_node) THEN 1 ELSE 0
    IN  [s EXCEPT
           !.id_done[id_node] = 1,
           !.id_cow_tag[id_node] =
               @ \cup (s.id_orig_tag[id_node] \cap LIB_TAG_ID_RECALC_ALL),
           !.editors_id_update[id_node] = @ + notify,
           !.recalc_tag[id_node] = @ + 1,
           !.recalc_data_tag[id_node] = @ + 1]

\* flush_handle_id_node that notifies the editors whether or not the copy is
\* expanded.
flush_handle_id_node_AlwaysNotify(s, id_node) ==
    IF s.id_done[id_node] # 0 THEN s
    ELSE [s EXCEPT
            !.id_done[id_node] = 1,
            !.id_cow_tag[id_node] =
                @ \cup (s.id_orig_tag[id_node] \cap LIB_TAG_ID_RECALC_ALL),
            !.editors_id_update[id_node] = @ + 1,
            !.recalc_tag[id_node] = @ + 1,
            !.recalc_data_tag[id_node] = @ + 1]

flush_handle_id_node(s, id_node) ==
    IF s.id_done[id_node] # 0 THEN s
    ELSE LET notify == IF deg_copy_on_write_is_expanded(id_node) THEN 1 ELSE 0
         IN  [s EXCEPT
                !.id_done[id_node] = 1,
                !.id_cow_tag[id_node] =
                    @ \cup (s.id_orig_tag[id_node] \cap LIB_TAG_ID_RECALC_ALL),
                !.editors_id_update[id_node] = @ + notify,
                !.recalc_tag[id_node] = @ + 1,
                !.recalc_data_tag[id_node] = @ + 1]

\* The loop, tagging the operations of the particle settings kind as well.
TagComponentOperations_All(s, comp_node) ==
    [s EXCEPT !.flag = [op \in Operations |->
        IF op \in CompOperations(comp_node)
        THEN s.flag[op] \cup {DEPSOP_FLAG_NEEDS_UPDATE}
        ELSE s.flag[op]]]

\* The loop, run over the operations of all the components of the ID.
TagComponentOperations_WholeID(s, comp_node) ==
    [s EXCEPT !.flag = [op \in Operations |->
        IF CompOwner(OpOwner(op)) = CompOwner(comp_node)
           /\ Opcode(op) # "DEG_OPCODE_PARTICLE_SETTINGS_EVAL"
        THEN s.flag[op] \cup {DEPSOP_FLAG_NEEDS_UPDATE}
        ELSE s.flag[op]]]

\* The loop over comp_node->operations of flush_handle_component_node.
TagComponentOperations(s, comp_node) ==
    [s EXCEPT !.flag = [op \in Operations |->
        IF op \in CompOperations(comp_node)
           /\ Opcode(op) # "DEG_OPCODE_PARTICLE_SETTINGS_EVAL"
        THEN s.flag[op] \cup {DEPSOP_FLAG_NEEDS_UPDATE}
        ELSE s.flag[op]]]

\* The bone rule, forgetting to mark the pose component SCHEDULED.
HandleBone_NoState(s, id_node, comp_node) ==
    IF CompType(comp_node) # "DEG_NODE_TYPE_BONE" THEN s
    ELSE LET pose_comp == find_component(s.components, id_node, "DEG_NODE_TYPE_EVAL_POSE")
             entry == get_entry_operation(pose_comp)
         IN  IF s.comp_done[pose_comp] = COMPONENT_STATE_NONE
             THEN [s EXCEPT !.queue = <<entry>> \o @,
                            !.enqueued[entry] = @ + 1,
                            !.pose_pushes[id_node] = @ + 1]
             ELSE s

\* The bone rule, marking the pose component SCHEDULED and pushing nothing.
HandleBone_NoPush(s, id_node, comp_node) ==
    IF CompType(comp_node) # "DEG_NODE_TYPE_BONE" THEN s
    ELSE LET pose_comp == find_component(s.components, id_node, "DEG_NODE_TYPE_EVAL_POSE")
         IN  IF s.comp_done[pose_comp] = COMPONENT_STATE_NONE
             THEN [s EXCEPT !.comp_done[pose_comp] = COMPONENT_STATE_SCHEDULED]
             ELSE s

\* The bone rule, not looking at the pose component's done.
HandleBone_NoGuard(s, id_node, comp_node) ==
    IF CompType(comp_node) # "DEG_NODE_TYPE_BONE" THEN s
    ELSE LET pose_comp == find_component(s.components, id_node, "DEG_NODE_TYPE_EVAL_POSE")
             entry == get_entry_operation(pose_comp)
         IN  [s EXCEPT !.queue = <<entry>> \o @,
                       !.comp_done[pose_comp] = COMPONENT_STATE_SCHEDULED,
                       !.enqueued[entry] = @ + 1,
                       !.pose_pushes[id_node] = @ + 1]

\* The bone rule without its BLI_assert: with no pose component it goes on
\* to push whatever get_entry_operation gives for NULL.
HandleBone_NoAssert(s, id_node, comp_node) ==
    IF CompType(comp_node) # "DEG_NODE_TYPE_BONE" THEN s
    ELSE LET pose_comp == find_component(s.components, id_node, "DEG_NODE_TYPE_EVAL_POSE")
             entry == get_entry_operation(pose_comp)
         IN  IF pose_comp = NULL
             THEN [s EXCEPT !.queue = <<entry>> \o @,
                            !.enqueued[entry] = @ + 1,
                            !.pose_pushes[id_node] = @ + 1]
             ELSE IF s.comp_done[pose_comp] = COMPONENT_STATE_NONE
             THEN [s EXCEPT !.queue = <<entry>> \o @,
                            !.comp_done[pose_comp] = COMPONENT_STATE_SCHEDULED,
                            !.enqueued[entry] = @ + 1,
                            !.pose_pushes[id_node] = @ + 1]
             ELSE s

\* BLI_assert(a): a failed assertion is fatal, the run stops at it.
BLI_assert(s, a, text) == IF a THEN s ELSE [s EXCEPT !.assertion = text]

\* The bone rule of flush_handle_component_node.
HandleBone(s, id_node, comp_node) ==
    IF CompType(comp_node) # "DEG_NODE_TYPE_BONE" THEN s
    ELSE LET pose_comp == find_component(s.components, id_node, "DEG_NODE_TYPE_EVAL_POSE")
             entry == get_entry_operation(pose_comp)
             checked == BLI_assert(s, pose_comp # NULL, "pose_comp != NULL")
         IN  IF checked.assertion # NULL THEN checked
             ELSE IF s.comp_done[pose_comp] = COMPONENT_STATE_NONE
             THEN [s EXCEPT !.queue = <<entry>> \o @,
                            !.comp_done[pose_comp] = COMPONENT_STATE_SCHEDULED,
                            !.enqueued[entry] = @ + 1,
                            !.pose_pushes[id_node] = @ + 1]
             ELSE s

\* OperationDepsNode::tag_update(graph): the graph's update tagging, which
\* marks the operation as the origin of a change and makes it an entry tag.
OperationTagUpdate(s, op) ==
    [s EXCEPT !.flag[op] =
                  @ \cup {DEPSOP_FLAG_NEEDS_UPDATE, DEPSOP_FLAG_DIRECTLY_MODIFIED},
              !.entry_tags = @ \cup {op}]

\* ComponentDepsNode::tag_update(graph): tags the operations of the component.
RECURSIVE TagOperations(_, _)
TagOperations(s, ops) ==
    IF ops = {} THEN s
    ELSE LET op == CHOOSE x \in ops : TRUE
         IN  TagOperations(OperationTagUpdate(s, op), ops \ {op})

ComponentTagUpdate(s, comp_node) == TagOperations(s, CompOperations(comp_node))

\* The copy-on-write rule of flush_handle_component_node.
HandleCow(s, id_node, comp_node) ==
    IF s.use_copy_on_write /\ depends_on_cow(comp_node)
    THEN LET cow_comp ==
                 find_component(s.components, id_node, "DEG_NODE_TYPE_COPY_ON_WRITE")
         IN  CHOOSE r \in {[t EXCEPT !.cow_tag_update[id_node] = @ + 1] :
                               t \in {ComponentTagUpdate(s, cow_comp)}} : TRUE
    ELSE s

flush_handle_component_node(s, id_node, comp_node) ==
    IF s.comp_done[comp_node] = COMPONENT_STATE_DONE THEN s
    ELSE CHOOSE s4 \in
            {HandleBone(s3, id_node, comp_node) :
                s3 \in {TagComponentOperations(s2, comp_node) :
                    s2 \in {HandleCow(s1, id_node, comp_node) :
                        s1 \in {[s EXCEPT !.comp_done[comp_node] =
                                              COMPONENT_STATE_DONE]}}}} : TRUE

\* The loop of flush_schedule_children over the links links of the node; the
\* record's op_node is the result so far.
RECURSIVE ScheduleLinks(_, _)
ScheduleLinks(s, links) ==
    IF links = <<>> THEN s
    ELSE LET to_node == Head(links)
             t == IF s.scheduled[to_node] = FALSE
                  THEN IF s.op_node # NULL
                       THEN [s EXCEPT !.queue = <<to_node>> \o @,
                                      !.enqueued[to_node] = @ + 1,
                                      !.scheduled[to_node] = TRUE]
                       ELSE [s EXCEPT !.op_node = to_node,
                                      !.scheduled[to_node] = TRUE]
                  ELSE s
         IN  ScheduleLinks(t, Tail(links))

\* flush_schedule_children that marks the additional targets and forgets to
\* push them.
RECURSIVE ScheduleLinksNoPush(_, _)
ScheduleLinksNoPush(s, links) ==
    IF links = <<>> THEN s
    ELSE LET to_node == Head(links)
             t == IF s.scheduled[to_node] = FALSE
                  THEN IF s.op_node # NULL
                       THEN [s EXCEPT !.scheduled[to_node] = TRUE]
                       ELSE [s EXCEPT !.op_node = to_node,
                                      !.scheduled[to_node] = TRUE]
                  ELSE s
         IN  ScheduleLinksNoPush(t, Tail(links))

flush_schedule_children_NoPush(s, node) ==
    ScheduleLinksNoPush([s EXCEPT !.op_node = NULL], s.outlinks[node])

\* flush_schedule_children that does not look at to_node->scheduled.
RECURSIVE ScheduleLinksNoCheck(_, _)
ScheduleLinksNoCheck(s, links) ==
    IF links = <<>> THEN s
    ELSE LET to_node == Head(links)
             t == IF s.op_node # NULL
                  THEN [s EXCEPT !.queue = <<to_node>> \o @,
                                 !.enqueued[to_node] = @ + 1,
                                 !.scheduled[to_node] = TRUE]
                  ELSE [s EXCEPT !.op_node = to_node,
                                 !.scheduled[to_node] = TRUE]
         IN  ScheduleLinksNoCheck(t, Tail(links))

flush_schedule_children_NoCheck(s, node) ==
    ScheduleLinksNoCheck([s EXCEPT !.op_node = NULL], s.outlinks[node])

\* flush_schedule_children with push_back for push_front.
RECURSIVE ScheduleLinksPushBack(_, _)
ScheduleLinksPushBack(s, links) ==
    IF links = <<>> THEN s
    ELSE LET to_node == Head(links)
             t == IF s.scheduled[to_node] = FALSE
                  THEN IF s.op_node # NULL
                       THEN [s EXCEPT !.queue = Append(@, to_node),
                                      !.enqueued[to_node] = @ + 1,
                                      !.scheduled[to_node] = TRUE]
                       ELSE [s EXCEPT !.op_node = to_node,
                                      !.scheduled[to_node] = TRUE]
                  ELSE s
         IN  ScheduleLinksPushBack(t, Tail(links))

flush_schedule_children_PushBack(s, node) ==
    ScheduleLinksPushBack([s EXCEPT !.op_node = NULL], s.outlinks[node])

\* Leaves its result in the record's op_node.
flush_schedule_children(s, node) ==
    ScheduleLinks([s EXCEPT !.op_node = NULL], s.outlinks[node])

\* The pass with op_node->flag = DEPSOP_FLAG_NEEDS_UPDATE (= for |=).
FlushNode_AssignsFlag(s) ==
    LET node == s.op_node
        comp_node == OpOwner(node)
        id_node == CompOwner(comp_node)
        tagged == [s EXCEPT !.flag[node] = {DEPSOP_FLAG_NEEDS_UPDATE},
                            !.visits[node] = @ + 1]
    IN  CHOOSE s4 \in
            {IF s3.assertion # NULL THEN s3 ELSE flush_schedule_children(s3, node) :
                s3 \in {flush_handle_component_node(s2, id_node, comp_node) :
                    s2 \in {flush_handle_id_node(s1, id_node) :
                        s1 \in {tagged}}}} : TRUE

\* One pass of the inner loop of deg_graph_flush_updates: the flag, the two
\* handlers, the children, each on the state the one before left; a failed
\* assertion ends it where it failed.
FlushNode(s) ==
    LET node == s.op_node
        comp_node == OpOwner(node)
        id_node == CompOwner(comp_node)
        tagged == [s EXCEPT !.flag[node] = @ \cup {DEPSOP_FLAG_NEEDS_UPDATE},
                            !.visits[node] = @ + 1]
    IN  CHOOSE s4 \in
            {IF s3.assertion # NULL THEN s3 ELSE flush_schedule_children(s3, node) :
                s3 \in {flush_handle_component_node(s2, id_node, comp_node) :
                    s2 \in {flush_handle_id_node(s1, id_node) :
                        s1 \in {tagged}}}} : TRUE

\* queue.front() and queue.pop_front()
PopFront(s) == [s EXCEPT !.op_node = Head(s.queue), !.queue = Tail(s.queue)]

\* ---------------------------------------------------------------- graphs
AddRelation(links, from, to) == [links EXCEPT ![from] = Append(@, to)]

RECURSIVE Graphs(_)
Graphs(n) ==
    IF n = 0 THEN {[op \in Operations |-> <<>>]}
    ELSE LET smaller == Graphs(n - 1)
         IN  smaller \cup {AddRelation(g, r[1], r[2]) :
                            g \in smaller, r \in Relations}

RECURSIVE Orders(_)
Orders(S) ==
    IF S = {} THEN {<<>>}
    ELSE UNION {{<<x>> \o o : o \in Orders(S \ {x})} : x \in S}

\* --------------------------------------------------------------- actions
\* No range is being run: the resets are run by the calling thread, as
\* flush_prepare and deg_graph_clear_tags describe them.
NoPool ==
    [phase |-> "none", slice |-> <<>>, prog |-> <<>>, tmp |-> <<>>, log |-> {},
     start |-> NULL]

Idle == {"idle", "cleared", "returned_early", "returned"}

\* The state of a graph the builder has just built, nothing tagged yet.
Untouched ==
    /\ entry_tags = {}
    /\ flag = [op \in Operations |-> {}]
    /\ scheduled = [op \in Operations |-> FALSE]
    /\ comp_done = [c \in Components |-> COMPONENT_STATE_NONE]
    /\ id_done = [id \in IDNodes |-> 0]
    /\ id_orig_tag = [id \in IDNodes |-> {LIB_TAG_DOIT}]
    /\ id_cow_tag = [id \in IDNodes |-> {}]
    /\ use_copy_on_write \in BOOLEAN
    /\ queue = <<>>
    /\ op_node = NULL
    /\ pc = "idle"
    /\ assertion = NULL
    /\ tags = 0
    /\ editors_id_update = [id \in IDNodes |-> 0]
    /\ recalc_tag = [id \in IDNodes |-> 0]
    /\ recalc_data_tag = [id \in IDNodes |-> 0]
    /\ cow_tag_update = [id \in IDNodes |-> 0]
    /\ flag0 = flag
    /\ entry_tags0 = entry_tags
    /\ enqueued = [op \in Operations |-> 0]
    /\ visits = [op \in Operations |-> 0]
    /\ pose_pushes = [id \in IDNodes |-> 0]
    /\ par = NoPool

\* The graphs the builder builds: every component of the node model.
Init ==
    /\ components = Components
    /\ outlinks \in Graphs(MaxLinks)
    /\ Untouched

\* The graphs of Init, and those graphs with the armature's pose component
\* and its operations left out, which no builder builds.
InconsistentInit ==
    /\ components \in {Components, Components \ {"pose"}}
    /\ outlinks \in {g \in Graphs(MaxLinks) :
          \A op \in Operations :
              OpOwner(op) \notin components =>
                  /\ g[op] = <<>>
                  /\ \A from \in Operations : op \notin {g[from][i] : i \in 1..Len(g[from])}}
    /\ Untouched

\* DEG_id_tag_update of the operation's ID: it tags the original data and,
\* through OperationDepsNode::tag_update, the operation, which becomes an
\* entry tag.
TagUpdate(op) ==
    /\ pc \in Idle
    /\ tags < MaxTags
    /\ tags' = tags + 1
    /\ OpOwner(op) \in components
    /\ CompType(OpOwner(op)) # "DEG_NODE_TYPE_COPY_ON_WRITE"
    /\ op \notin entry_tags
    /\ entry_tags' = entry_tags \cup {op}
    /\ flag' = [flag EXCEPT ![op] =
                   @ \cup {DEPSOP_FLAG_NEEDS_UPDATE, DEPSOP_FLAG_DIRECTLY_MODIFIED}]
    /\ id_orig_tag' = [id_orig_tag EXCEPT ![CompOwner(OpOwner(op))] =
                          @ \cup {"LIB_TAG_ID_RECALC"}]
    /\ pc' = "idle"
    /\ UNCHANGED <<poolVars, graphVars, scheduled, comp_done, id_done, id_cow_tag, loopVars,
                   assertion, callVars, startVars, histVars>>

\* deg_graph_flush_updates that resets the nodes before its early out.
FlushEmpty_Reset ==
    /\ pc \in Idle
    /\ Cardinality(entry_tags) = 0
    /\ \E t \in {flush_prepare(Cur)} : Becomes(t)
    /\ pc' = "returned_early"
    /\ UNCHANGED <<tags, startVars>>

\* deg_graph_flush_updates with nothing to update.
FlushEmpty ==
    /\ pc \in Idle
    /\ Cardinality(entry_tags) = 0
    /\ pc' = "returned_early"
    /\ UNCHANGED <<poolVars, graphVars, entry_tags, nodeVars, loopVars, assertion, tags,
                   callVars, startVars, histVars>>

\* deg_graph_flush_updates up to and including flush_prepare.
FlushPrepare ==
    /\ pc \in Idle
    /\ Cardinality(entry_tags) # 0
    /\ \E t \in {flush_prepare(
              [Cur EXCEPT !.queue = <<>>,
                          !.op_node = NULL,
                          !.editors_id_update = [id \in IDNodes |-> 0],
                          !.recalc_tag = [id \in IDNodes |-> 0],
                          !.recalc_data_tag = [id \in IDNodes |-> 0],
                          !.cow_tag_update = [id \in IDNodes |-> 0],
                          !.enqueued = [op \in Operations |-> 0],
                          !.visits = [op \in Operations |-> 0],
                          !.pose_pushes = [id \in IDNodes |-> 0]])} : Becomes(t)
    /\ flag0' = flag
    /\ entry_tags0' = entry_tags
    /\ pc' = "prepared"
    /\ UNCHANGED tags

ScheduleEntrypoints ==
    /\ pc = "prepared"
    /\ \E order \in Orders(entry_tags) :
          \E t \in {flush_schedule_entrypoints(Cur, order)} : Becomes(t)
    /\ pc' = "flush"
    /\ UNCHANGED <<tags, startVars>>

\* The outer loop takes the front of the queue.
Pop ==
    /\ pc = "flush"
    /\ assertion = NULL
    /\ op_node = NULL
    /\ queue # <<>>
    /\ \E t \in {PopFront(Cur)} : Becomes(t)
    /\ UNCHANGED <<pc, tags, startVars>>

\* One pass of the inner loop.
Visit ==
    /\ pc = "flush"
    /\ assertion = NULL
    /\ op_node # NULL
    /\ \E t \in {FlushNode(Cur)} : Becomes(t)
    /\ UNCHANGED <<pc, tags, startVars>>

\* The queue is empty: deg_graph_flush_updates returns.
FlushReturn ==
    /\ pc = "flush"
    /\ assertion = NULL
    /\ op_node = NULL
    /\ queue = <<>>
    /\ pc' = "returned"
    /\ UNCHANGED <<poolVars, graphVars, entry_tags, nodeVars, loopVars, assertion, tags,
                   callVars, startVars, histVars>>

\* graph_clear_func with a mask of NEEDS_UPDATE alone.
graph_clear_func_KeepsModified(f) == f \ {DEPSOP_FLAG_NEEDS_UPDATE}

\* graph_clear_func that flips the two bits (^= for &= ~).
graph_clear_func_Toggle(f) ==
    LET mask == {DEPSOP_FLAG_DIRECTLY_MODIFIED, DEPSOP_FLAG_NEEDS_UPDATE}
    IN  (f \ mask) \cup (mask \ f)

\* node->flag &= ~(DEPSOP_FLAG_DIRECTLY_MODIFIED | DEPSOP_FLAG_NEEDS_UPDATE)
graph_clear_func(f) ==
    f \ {DEPSOP_FLAG_DIRECTLY_MODIFIED, DEPSOP_FLAG_NEEDS_UPDATE}

\* The flags and the entry tags of the graph, as one record.
Tags == [flag |-> flag, entry_tags |-> entry_tags]

\* graph_clear_func over all operations, then BLI_gset_clear.
deg_graph_clear_tags(g) ==
    [g EXCEPT !.flag = [op \in Operations |-> graph_clear_func(g.flag[op])],
              !.entry_tags = {}]

ClearTags ==
    /\ pc \in Idle
    /\ \E g \in {deg_graph_clear_tags(Tags)} :
          /\ flag' = g.flag
          /\ entry_tags' = g.entry_tags
    /\ pc' = "cleared"
    /\ UNCHANGED <<poolVars, graphVars, scheduled, comp_done, id_done, id_orig_tag,
                   id_cow_tag, loopVars, assertion, tags, callVars, startVars,
                   histVars>>

Next ==
    \/ \E op \in Operations : TagUpdate(op)
    \/ FlushEmpty
    \/ FlushPrepare
    \/ ScheduleEntrypoints
    \/ Pop
    \/ Visit
    \/ FlushReturn
    \/ ClearTags

Spec == Init /\ [][Next]_vars

\* The same program on the graphs of InconsistentInit.
InconsistentSpec == InconsistentInit /\ [][Next]_vars

\* deg_graph_flush_updates once it is past flush_prepare.
FlushStep == ScheduleEntrypoints \/ Pop \/ Visit \/ FlushReturn

\* The flush is sequential code: once begun it runs on to its return.
FairSpec == Spec /\ WF_vars(FlushStep)

\* ------------------------------------------------------- what claims use
NeedsUpdate(f, op) == DEPSOP_FLAG_NEEDS_UPDATE \in f[op]

Range(seq) == {seq[i] : i \in 1..Len(seq)}

\* The operations reachable from those of S along outbound links.
RECURSIVE Reachable(_)
Reachable(S) ==
    LET next == S \cup UNION {Range(outlinks[op]) : op \in S}
    IN  IF next = S THEN S ELSE Reachable(next)

\* The operations the loop has had as its op_node.
Processed == {op \in Operations : visits[op] > 0}

SumVisits == LET RECURSIVE Sum(_)
                 Sum(S) == IF S = {} THEN 0
                           ELSE LET op == CHOOSE x \in S : TRUE
                                IN  visits[op] + Sum(S \ {op})
             IN  Sum(Operations)

\* ---------------------------------------------------------------- claims
\* C1: within one flush no operation node is put on the worklist more than
\* once, whichever way it is put there (entry scheduling, an additional
\* target of flush_schedule_children, the bone rule's push of the pose
\* component's entry operation).
C1_EnqueuedOnce == \A op \in Operations : enqueued[op] <= 1

\* C2: within one flush every operation node is the loop's active node at
\* most once, also when the bone rule re-enters the pose component.
C2_VisitedOnce == \A op \in Operations : visits[op] <= 1

\* C3: when a flush of a non-empty entry set returns, every operation of the
\* entry set or reachable from it along outbound links has NEEDS_UPDATE.
C3_ReachableTagged ==
    pc = "returned" =>
        \A op \in Reachable(entry_tags0) : NeedsUpdate(flag, op)

\* C3 witness: a flush has returned having tagged an operation two links away
\* from the entry set and both targets of an operation with two links.
C3_Witness ==
    /\ pc = "returned"
    /\ \E a \in entry_tags0, b, c \in Operations \ entry_tags0 :
          /\ b # c
          /\ b \in Range(outlinks[a])
          /\ c \in Range(outlinks[b]) \/ c \in Range(outlinks[a])
          /\ ~NeedsUpdate(flag0, b) /\ ~NeedsUpdate(flag0, c)
          /\ NeedsUpdate(flag, b) /\ NeedsUpdate(flag, c)

\* The operations a flush may lead to from those of S: along outbound links
\* and, from an operation of a bone component, to the entry operation of the
\* pose component of the same ID.
BoneTargets(op) ==
    IF CompType(OpOwner(op)) = "DEG_NODE_TYPE_BONE"
    THEN {get_entry_operation(
              find_component(components, CompOwner(OpOwner(op)),
                             "DEG_NODE_TYPE_EVAL_POSE"))}
    ELSE {}

RECURSIVE FlushReachable(_)
FlushReachable(S) ==
    LET next == S \cup UNION {Range(outlinks[op]) \cup BoneTargets(op) : op \in S}
    IN  IF next = S THEN S ELSE FlushReachable(next)

\* The operations the component re-tag covers once those of S are visited.
Siblings(S) ==
    {op \in Operations : /\ Opcode(op) # "DEG_OPCODE_PARTICLE_SETTINGS_EVAL"
                         /\ \E r \in S : OpOwner(r) = OpOwner(op)}

\* The operations whose NEEDS_UPDATE the flush has set.
NewlyTagged == {op \in Operations : ~NeedsUpdate(flag0, op) /\ NeedsUpdate(flag, op)}

\* C4 as stated: every operation whose NEEDS_UPDATE was clear before the
\* flush and is set after it is in the entry set or reachable from it along
\* outbound links.
C4_OnlyReachableTagged ==
    pc = "returned" => NewlyTagged \subseteq Reachable(entry_tags0)

\* The operations the copy-on-write rule tags once those of S are visited:
\* with copy-on-write in use, those of the copy-on-write component of an ID
\* that owns one of S in a component that depends on it.
CowTagged(S) ==
    IF use_copy_on_write
    THEN {op \in Operations :
            /\ CompType(OpOwner(op)) = "DEG_NODE_TYPE_COPY_ON_WRITE"
            /\ \E r \in S : /\ depends_on_cow(OpOwner(r))
                            /\ CompOwner(OpOwner(r)) = CompOwner(OpOwner(op))}
    ELSE {}

\* C4 amended: every operation whose NEEDS_UPDATE was clear before the flush
\* and is set after it is in the entry set, or reachable from it along
\* outbound links and the bone rule's steps from an operation of a bone
\* component to the entry operation of the ID's pose component, or is an
\* operation not of the particle settings kind owned by the component of
\* such an operation, or an operation of the copy-on-write component that
\* the handler of such an operation's component tags.
C4_OnlyFlushReachableTagged ==
    pc = "returned" =>
        NewlyTagged \subseteq
            (FlushReachable(entry_tags0) \cup Siblings(FlushReachable(entry_tags0))
                \cup CowTagged(FlushReachable(entry_tags0)))

\* C4 witness: a flush has returned having tagged an operation that is out
\* of reach along links, and having left another one untagged.
C4_Witness ==
    /\ pc = "returned"
    /\ NewlyTagged \ Reachable(entry_tags0) # {}
    /\ \E op \in Operations : ~NeedsUpdate(flag, op)

\* Whether the flush has visited an operation of the ID.
Handled(id_node) == \E op \in Processed : CompOwner(OpOwner(op)) = id_node

\* C5 as stated: in one flush, deg_editors_id_update, lib_id_recalc_tag and
\* lib_id_recalc_data_tag are each called exactly once for every ID that owns
\* a visited operation, and not at all for the other IDs.
C5_EachEffectOnce ==
    pc = "returned" =>
        \A id \in IDNodes :
            LET n == IF Handled(id) THEN 1 ELSE 0
            IN  /\ editors_id_update[id] = n
                /\ recalc_tag[id] = n
                /\ recalc_data_tag[id] = n

\* C5 amended: in one flush, lib_id_recalc_tag and lib_id_recalc_data_tag are
\* each called exactly once for every ID that owns a visited operation, and
\* deg_editors_id_update exactly once if the ID's copy is expanded and not at
\* all if it is not; none of them is called for the other IDs.
C5_EntityIdempotence ==
    pc = "returned" =>
        \A id \in IDNodes :
            LET n == IF Handled(id) THEN 1 ELSE 0
                e == IF Handled(id) /\ deg_copy_on_write_is_expanded(id)
                     THEN 1 ELSE 0
            IN  /\ editors_id_update[id] = e
                /\ recalc_tag[id] = n
                /\ recalc_data_tag[id] = n

\* C5 witness: a flush has returned having visited several operations, of
\* several components, of an ID, and none of the other ID.
C5_Witness ==
    /\ pc = "returned"
    /\ \E a, b \in Processed :
          /\ OpOwner(a) # OpOwner(b)
          /\ CompOwner(OpOwner(a)) = CompOwner(OpOwner(b))
    /\ \E id \in IDNodes : ~Handled(id)

PoseOf(id_node) == find_component(components, id_node, "DEG_NODE_TYPE_EVAL_POSE")

\* C6: within one flush the bone rule pushes the entry operation of an ID's
\* pose component at most once, and only when that component's done is NONE,
\* which the push makes SCHEDULED.
C6_PoseReentry ==
    [][\A id \in IDNodes :
          (pc = "flush" /\ pose_pushes'[id] # pose_pushes[id]) =>
              /\ pose_pushes[id] = 0
              /\ pose_pushes'[id] = 1
              /\ comp_done[PoseOf(id)] = COMPONENT_STATE_NONE
              /\ comp_done'[PoseOf(id)] = COMPONENT_STATE_SCHEDULED]_vars

\* C6 witness: two bone components of an ID are handled and the entry
\* operation of its pose component has been pushed once.
C6_Witness ==
    /\ pc \in {"flush", "returned"}
    /\ comp_done["bone_a"] = COMPONENT_STATE_DONE
    /\ comp_done["bone_b"] = COMPONENT_STATE_DONE
    /\ pose_pushes["armature"] = 1

\* C7: a handled component has NEEDS_UPDATE on all its operations but those
\* of the particle settings kind, and such an operation that the flush has
\* not visited has NEEDS_UPDATE as it had before the flush.
C7_PolicyException ==
    pc \in {"flush", "returned"} =>
        /\ \A c \in Components :
              comp_done[c] = COMPONENT_STATE_DONE =>
                  \A op \in CompOperations(c) :
                      Opcode(op) # "DEG_OPCODE_PARTICLE_SETTINGS_EVAL"
                          => NeedsUpdate(flag, op)
        /\ \A op \in Operations \ Processed :
              Opcode(op) = "DEG_OPCODE_PARTICLE_SETTINGS_EVAL" =>
                  (NeedsUpdate(flag, op) <=> NeedsUpdate(flag0, op))

\* C7 witness: a flush has returned with the particle component handled, its
\* other operation tagged by the flush, and its settings evaluation, which
\* was not visited, untagged.
C7_Witness ==
    /\ pc = "returned"
    /\ comp_done["particles"] = COMPONENT_STATE_DONE
    /\ "G1" \notin Processed
    /\ ~NeedsUpdate(flag, "G1")
    /\ "G2" \in NewlyTagged

\* C8: a flush that has begun returns, and the visits it makes are at most
\* one per operation and one more per ID (for its pose entry operation).
C8_Termination ==
    /\ (pc = "prepared") ~> (pc = "returned")
    /\ [](SumVisits <= Cardinality(Operations) + Cardinality(IDNodes))

\* C8 witness: a flush has returned from a graph with a cycle of links, all
\* of whose operations it visited, and with a push by the bone rule.
C8_Witness ==
    /\ pc = "returned"
    /\ \E a, b \in Processed :
          /\ a # b
          /\ b \in Range(outlinks[a])
          /\ a \in Range(outlinks[b])
    /\ \E id \in IDNodes : pose_pushes[id] = 1

\* What C9 compares of the state a flush ends in.
Outcome(s) ==
    [needs_update |-> {op \in Operations : NeedsUpdate(s.flag, op)},
     comp_done |-> s.comp_done,
     id_done |-> s.id_done,
     editors_id_update |-> s.editors_id_update]

\* deg_graph_flush_updates from flush_schedule_entrypoints to its return.
RECURSIVE FlushLoop(_)
FlushLoop(s) ==
    IF s.assertion # NULL THEN s
    ELSE IF s.op_node # NULL THEN FlushLoop(FlushNode(s))
    ELSE IF s.queue # <<>> THEN FlushLoop(PopFront(s))
    ELSE s

\* The state deg_graph_flush_updates ends in, begun in state s with the
\* entry tags visited in the order `order`.
FlushFrom(s, order) ==
    FlushLoop(flush_schedule_entrypoints(flush_prepare(s), order))

\* The state the last flush began in.
Before ==
    [Cur EXCEPT !.flag = flag0,
                !.entry_tags = entry_tags0,
                !.queue = <<>>,
                !.op_node = NULL,
                !.editors_id_update = [id \in IDNodes |-> 0],
                !.recalc_tag = [id \in IDNodes |-> 0],
                !.recalc_data_tag = [id \in IDNodes |-> 0],
                !.cow_tag_update = [id \in IDNodes |-> 0],
                !.enqueued = [op \in Operations |-> 0],
                !.visits = [op \in Operations |-> 0],
                !.pose_pushes = [id \in IDNodes |-> 0]]

\* C9: the state a flush ends in (the operations with NEEDS_UPDATE, every
\* component's done, every ID's done, the notifications per ID) is the one
\* it ends in for every other order of iteration over the entry set.
C9_EntryOrderIndependence ==
    pc = "returned" =>
        \A order \in Orders(entry_tags0) :
            Outcome(FlushFrom(Before, order)) = Outcome(Cur)

\* C10: deg_graph_flush_updates called with an empty entry set returns at
\* once: it resets nothing, changes no flag, no scheduled, no done, and calls
\* no collaborator.
C10_EmptyEntrySet ==
    [][(pc \in Idle /\ entry_tags = {} /\ pc' \notin {"idle", "cleared"}) =>
          /\ pc' = "returned_early"
          /\ UNCHANGED <<poolVars, graphVars, entry_tags, nodeVars, loopVars, assertion,
                         callVars, histVars>>]_vars

\* C10 witness: an empty flush has returned with the scheduled and done
\* values of an earlier flush still there.
C10_Witness ==
    /\ pc = "returned_early"
    /\ \E op \in Operations : scheduled[op]
    /\ \E c \in Components : comp_done[c] = COMPONENT_STATE_DONE
    /\ \E id \in IDNodes : id_done[id] = 1 /\ recalc_tag[id] = 1

\* No operation has DIRECTLY_MODIFIED or NEEDS_UPDATE.
NoFlagSet(f) ==
    \A op \in Operations :
        f[op] \cap {DEPSOP_FLAG_DIRECTLY_MODIFIED, DEPSOP_FLAG_NEEDS_UPDATE} = {}

\* C11: when deg_graph_clear_tags has returned, whatever the state it was
\* called in, no operation has DIRECTLY_MODIFIED or NEEDS_UPDATE and the
\* entry set is empty.
C11_ClearTagsPostcondition ==
    pc = "cleared" => NoFlagSet(flag) /\ entry_tags = {}

\* C11 witness: the tags were cleared with no flush ever run, so with the
\* entry tags of a tag_update unconsumed.
C11_Witness ==
    /\ pc = "cleared"
    /\ \E id \in IDNodes : "LIB_TAG_ID_RECALC" \in id_orig_tag[id]
    /\ \A op \in Operations : ~scheduled[op]

\* C12: in every state, clearing the tags twice gives what clearing them
\* once gives; and clearing them where they have just been cleared, or where
\* no flag is set and the entry set is empty, changes nothing.
C12_IdempotentClear ==
    /\ deg_graph_clear_tags(deg_graph_clear_tags(Tags)) = deg_graph_clear_tags(Tags)
    /\ (pc = "cleared" \/ (NoFlagSet(flag) /\ entry_tags = {}))
          => deg_graph_clear_tags(Tags) = Tags

\* C12 witness: the tags were cleared after a flush that had propagated
\* along a link, so the clear had flags of the flush to remove.
C12_Witness ==
    /\ pc = "cleared"
    /\ \E a, b \in Operations : a # b /\ visits[a] > 0 /\ visits[b] > 0
    /\ \E id \in IDNodes : id_cow_tag[id] # {}

\* C13: once a flush has reset the nodes, no step of it moves a component's
\* done backwards in NONE, SCHEDULED, DONE; the bone rule leaves a DONE
\* component DONE.
C13_ComponentDoneMonotone ==
    [][(pc \in {"prepared", "flush"}) =>
          \A c \in Components : comp_done[c] <= comp_done'[c]]_vars

\* C13 witness: the pose component was DONE when the bone component was
\* handled, and the bone rule has pushed nothing and left it DONE.
C13_Witness ==
    /\ pc \in {"flush", "returned"}
    /\ comp_done["pose"] = COMPONENT_STATE_DONE
    /\ comp_done["bone_a"] = COMPONENT_STATE_DONE
    /\ pose_pushes["armature"] = 0

\* Every node is as flush_prepare leaves it and the worklist is empty.
ResetDone ==
    /\ \A op \in Operations : scheduled[op] = FALSE
    /\ \A id \in IDNodes : id_done[id] = 0
    /\ \A c \in Components : comp_done[c] = COMPONENT_STATE_NONE
    /\ queue = <<>>

\* C14: in a flush of a non-empty entry set the reset of all nodes is
\* complete when entry scheduling starts: the state flush_schedule_entrypoints
\* starts in has every scheduled false, every ID's done 0, every component's
\* done NONE and an empty worklist, and no operation is marked scheduled or
\* put on the worklist by a step before that.
C14_ResetBeforeEntryScheduling ==
    [][/\ (pc = "prepared") => ResetDone
       /\ ((\E op \in Operations : ~scheduled[op] /\ scheduled'[op])
              \/ Len(queue') > Len(queue))
            => pc \in {"prepared", "flush"}]_vars

\* C14 witness: a flush is about to schedule its entries after an earlier
\* flush had handled an ID, whose done it has reset.
C14_Witness ==
    /\ pc = "prepared"
    /\ \E id \in IDNodes : id_cow_tag[id] # {} /\ id_done[id] = 0

\* A bone component of an ID that has no pose component.
BoneWithoutPose(comp_node) ==
    /\ CompType(comp_node) = "DEG_NODE_TYPE_BONE"
    /\ find_component(components, CompOwner(comp_node),
                      "DEG_NODE_TYPE_EVAL_POSE") = NULL

\* C15: the pass of the flush that handles, for the first time, a bone
\* component of an ID with no pose component fails the assertion, pushes
\* nothing onto the worklist and schedules nothing, and nothing runs after
\* a failed assertion; no other pass fails an assertion, so in a graph where
\* every ID with a bone component has a pose component none is reachable.
C15_ConsistencyViolation ==
    [][/\ assertion = NULL
       /\ (pc = "flush" /\ op_node # NULL) =>
             IF /\ BoneWithoutPose(OpOwner(op_node))
                /\ comp_done[OpOwner(op_node)] # COMPONENT_STATE_DONE
             THEN /\ assertion' = "pose_comp != NULL"
                  /\ UNCHANGED <<queue, scheduled, enqueued, pose_pushes>>
             ELSE assertion' = NULL
       /\ (\A c \in components : ~BoneWithoutPose(c)) => assertion' = NULL]_vars

\* C15 witness: the flush has stopped at the failed assertion, handling a
\* bone operation, with operations still on the worklist.
C15_Witness ==
    /\ assertion = "pose_comp != NULL"
    /\ CompType(OpOwner(op_node)) = "DEG_NODE_TYPE_BONE"
    /\ "pose" \notin components
    /\ queue # <<>>

\* The targets of links that are not scheduled in sched, each once, in link
\* order.
RECURSIVE Unscheduled(_, _)
Unscheduled(links, sched) ==
    IF links = <<>> THEN <<>>
    ELSE LET to_node == Head(links)
             rest == Unscheduled(Tail(links), [sched EXCEPT ![to_node] = TRUE])
         IN  IF sched[to_node] THEN rest ELSE <<to_node>> \o rest

\* The sequence old is the end of the sequence new.
IsSuffix(old, new) ==
    /\ Len(old) <= Len(new)
    /\ old = SubSeq(new, Len(new) - Len(old) + 1, Len(new))

\* C16: a pass over the active node makes the first unscheduled target in
\* link order the next active node (none: no active node), without it going
\* onto the worklist, and puts every further unscheduled target, and the pose
\* entry operation the bone rule pushes, in front of all that the worklist
\* held before the pass, which stays behind them in its order; the worklist
\* is taken from its front; entry scheduling puts each entry operation on the
\* worklist once, so the entries leave it in the order they were appended.
C16_TraversalOrder ==
    [][/\ (pc = "flush" /\ op_node # NULL /\ pc' = "flush") =>
             LET targets == Unscheduled(outlinks[op_node], scheduled)
                 pushed == SubSeq(queue', 1, Len(queue') - Len(queue))
                 bone == IF pose_pushes' # pose_pushes THEN 1 ELSE 0
             IN  /\ op_node' = IF targets = <<>> THEN NULL ELSE Head(targets)
                 /\ IsSuffix(queue, queue')
                 /\ Len(pushed) = bone + (IF targets = <<>> THEN 0
                                           ELSE Len(targets) - 1)
                 /\ \A i \in 2..Len(targets) : targets[i] \in Range(pushed)
                 /\ targets # <<>> =>
                        enqueued'[Head(targets)] = enqueued[Head(targets)]
                          \/ bone = 1
       /\ (pc = "flush" /\ op_node = NULL /\ pc' = "flush") =>
             /\ op_node' = Head(queue)
             /\ queue' = Tail(queue)
       /\ (pc = "prepared") =>
             /\ Range(queue') = entry_tags
             /\ Len(queue') = Cardinality(entry_tags)]_vars

\* C16 witness: a pass with two unscheduled targets has made one the active
\* node and put the other in front of an entry operation that was waiting
\* on the worklist.
C16_Witness ==
    /\ pc = "flush"
    /\ op_node # NULL
    /\ Len(queue) >= 2
    /\ \E a \in Processed :
          /\ op_node \in Range(outlinks[a])
          /\ Head(queue) \in Range(outlinks[a])
          /\ op_node # Head(queue)
          /\ scheduled[Head(queue)]
    /\ queue[Len(queue)] \in entry_tags
    /\ visits[queue[Len(queue)]] = 0
    /\ visits[op_node] = 0

\* C17: the pass that handles an ID for the first time in a flush calls
\* deg_editors_id_update for it if and only if its copy is expanded, and,
\* expanded or not, merges the recalc bits of the original's tag into the
\* copy's tag and calls lib_id_recalc_tag and lib_id_recalc_data_tag once
\* each; a pass over an ID already handled does none of these.
C17_ConditionalNotification ==
    [][(pc = "flush" /\ op_node # NULL /\ pc' = "flush") =>
          LET id == CompOwner(OpOwner(op_node))
              first == id_done[id] = 0
              n == IF first THEN 1 ELSE 0
              e == IF first /\ deg_copy_on_write_is_expanded(id) THEN 1 ELSE 0
          IN  /\ editors_id_update' =
                     [editors_id_update EXCEPT ![id] = @ + e]
              /\ recalc_tag' = [recalc_tag EXCEPT ![id] = @ + n]
              /\ recalc_data_tag' = [recalc_data_tag EXCEPT ![id] = @ + n]
              /\ id_cow_tag' =
                     [id_cow_tag EXCEPT ![id] =
                         IF first
                         THEN @ \cup (id_orig_tag[id] \cap LIB_TAG_ID_RECALC_ALL)
                         ELSE @]
              /\ id_done'[id] = 1]_vars

\* C17 witness: a flush has handled an ID whose copy is expanded and one
\* whose copy is not: both were tagged for recalc and had the recalc bit
\* merged, only the first was notified.
C17_Witness ==
    /\ pc \in {"flush", "returned"}
    /\ \E x, y \in IDNodes :
          /\ deg_copy_on_write_is_expanded(x)
          /\ ~deg_copy_on_write_is_expanded(y)
          /\ editors_id_update[x] = 1 /\ editors_id_update[y] = 0
          /\ recalc_tag[x] = 1 /\ recalc_tag[y] = 1
          /\ recalc_data_tag[x] = 1 /\ recalc_data_tag[y] = 1
          /\ id_cow_tag[x] = {"LIB_TAG_ID_RECALC"}
          /\ id_cow_tag[y] = {"LIB_TAG_ID_RECALC"}

\* C19: when a flush returns, no component's done is SCHEDULED: it is DONE
\* for the components that own a visited operation and NONE for the others,
\* and an ID's done is set exactly when the ID owns a visited operation.
\* (Every pose component's entry operation is an operation of that
\* component.)
C19_NoComponentLeftScheduled ==
    pc = "returned" =>
        /\ \A c \in Components :
              /\ comp_done[c] # COMPONENT_STATE_SCHEDULED
              /\ comp_done[c] = COMPONENT_STATE_DONE
                    <=> \E op \in Processed : OpOwner(op) = c
        /\ \A id \in IDNodes : id_done[id] # 0 <=> Handled(id)
        /\ \A c \in Components :
              CompType(c) = "DEG_NODE_TYPE_EVAL_POSE" =>
                  OpOwner(get_entry_operation(c)) = c

\* C19 witness: a flush has returned in which the pose component was only
\* reached through the bone rule's push (SCHEDULED, then DONE when its entry
\* operation was popped), with another component untouched.
C19_Witness ==
    /\ pc = "returned"
    /\ pose_pushes["armature"] = 1
    /\ enqueued["P1"] = 1
    /\ visits["P1"] = 1
    /\ "P1" \notin entry_tags0
    /\ comp_done["pose"] = COMPONENT_STATE_DONE
    /\ \E c \in Components : comp_done[c] = COMPONENT_STATE_NONE

\* A step of deg_graph_flush_updates.
FlushStepTaken == pc' \in {"prepared", "flush", "returned", "returned_early"}

\* C20 as stated: no step of deg_graph_flush_updates clears a flag of an
\* operation or takes an operation out of the entry set, none sets
\* DIRECTLY_MODIFIED, and flush_prepare changes no flag and no tag at all; so
\* the flush returns with the entries it was called with, and a flush called
\* again starts from them again.
C20_FlushFrame ==
    [][FlushStepTaken =>
          /\ entry_tags \subseteq entry_tags'
          /\ \A op \in Operations :
                /\ flag[op] \subseteq flag'[op]
                /\ flag'[op] \ flag[op] \subseteq {DEPSOP_FLAG_NEEDS_UPDATE}
          /\ (pc' = "prepared") =>
                UNCHANGED <<flag, entry_tags, id_orig_tag, id_cow_tag>>
          /\ (pc' = "returned") => entry_tags0 \subseteq entry_tags']_vars

\* C20 amended: no step of deg_graph_flush_updates clears a flag of an
\* operation or takes an operation out of the entry set, and flush_prepare
\* changes no flag and no tag at all; DIRECTLY_MODIFIED is set, and the entry
\* set grown, only by the copy-on-write rule, with copy-on-write in use, on
\* the operations of the copy-on-write component of the ID being handled; so
\* the flush returns with the entries it was called with, and a flush called
\* again starts from them again.
C20_FlushFrameButCowTag ==
    [][FlushStepTaken =>
          /\ entry_tags \subseteq entry_tags'
          /\ \A op \in Operations :
                /\ flag[op] \subseteq flag'[op]
                /\ (flag'[op] \ flag[op] \subseteq {DEPSOP_FLAG_NEEDS_UPDATE}
                      /\ (op \in entry_tags' => op \in entry_tags))
                   \/ (/\ use_copy_on_write
                       /\ pc = "flush" /\ op_node # NULL
                       /\ depends_on_cow(OpOwner(op_node))
                       /\ CompType(OpOwner(op)) = "DEG_NODE_TYPE_COPY_ON_WRITE"
                       /\ CompOwner(OpOwner(op)) = CompOwner(OpOwner(op_node)))
          /\ (pc' = "prepared") =>
                UNCHANGED <<flag, entry_tags, id_orig_tag, id_cow_tag>>
          /\ (pc' = "returned") => entry_tags0 \subseteq entry_tags']_vars

\* C20 witness: a flush has returned that was called, with no clear in
\* between, after a flush whose copy-on-write rule had added an entry: it
\* started from that entry too, and every entry it was called with is still
\* an entry and still has DIRECTLY_MODIFIED.
C20_Witness ==
    /\ pc = "returned"
    /\ \E op \in entry_tags0 : CompType(OpOwner(op)) = "DEG_NODE_TYPE_COPY_ON_WRITE"
    /\ \E op \in entry_tags0 : CompType(OpOwner(op)) = "DEG_NODE_TYPE_BONE"
    /\ entry_tags0 \subseteq entry_tags
    /\ \A op \in entry_tags0 : DEPSOP_FLAG_DIRECTLY_MODIFIED \in flag[op]

\* ------------------------------------------- the resets on a task pool
\* Most relations of a graph whose resets are run on the pool.
ParLinks == 1
\* Most entry tags of the flush that came before those resets.
ParTags == 1

\* The workers of the pool, in the order of their slices.
Workers == <<"w1", "w2">>

\* Depsgraph::operations and Depsgraph::id_nodes, the arrays the ranges index
\* (from 1 here).
graph_operations == <<"B1", "B2", "P1", "P2", "C1", "G1", "G2">>
graph_id_nodes == <<"armature", "emitter">>

\* The accesses a callback makes to the fields of the nodes: a store of a
\* value, a load, and the store of the loaded flag with the two bits cleared.
Store(var, node, val) == [kind |-> "store", var |-> var, node |-> node, val |-> val]
Load(var, node) == [kind |-> "load", var |-> var, node |-> node, val |-> NULL]
StoreCleared(var, node) ==
    [kind |-> "store_cleared", var |-> var, node |-> node, val |-> NULL]

\* node->scheduled = false
flush_init_operation_node_func(i) ==
    <<Store("scheduled", graph_operations[i], FALSE)>>

\* flush_init_id_node_func that walks the components of the whole graph.
flush_init_id_node_func_AllComponents(comps, i) ==
    LET id_node == graph_id_nodes[i]
        all == CHOOSE o \in Orders(comps) : TRUE
    IN  <<Store("id_done", id_node, 0)>> \o
        [j \in 1..Len(all) |-> Store("comp_done", all[j], COMPONENT_STATE_NONE)]

\* id_node->done = 0, then comp_node->done = COMPONENT_STATE_NONE for the
\* components of id_node->components, in the order the hash yields them.
flush_init_id_node_func(comps, i) ==
    LET id_node == graph_id_nodes[i]
        owned == CHOOSE o \in Orders({c \in comps : CompOwner(c) = id_node}) : TRUE
    IN  <<Store("id_done", id_node, 0)>> \o
        [j \in 1..Len(owned) |-> Store("comp_done", owned[j], COMPONENT_STATE_NONE)]

\* graph_clear_func as the accesses of node->flag &= ~(...): the flag is
\* loaded, and stored with the bits cleared.
GraphClearNode(i) ==
    <<Load("flag", graph_operations[i]), StoreCleared("flag", graph_operations[i])>>

\* The callback of the range a phase runs, called with index i.
Callback(phase, comps, i) ==
    CASE phase = "init_operations" -> flush_init_operation_node_func(i)
      [] phase = "init_ids" -> flush_init_id_node_func(comps, i)
      [] OTHER -> GraphClearNode(i)

\* The length of the array the range of a phase runs over.
RangeStop(phase) ==
    IF phase = "init_ids" THEN Len(graph_id_nodes) ELSE Len(graph_operations)

\* What a worker does for the slice lo..hi of the range: the callback for
\* each index, in order.
RECURSIVE Slice(_, _, _, _)
Slice(phase, comps, lo, hi) ==
    IF lo > hi THEN <<>>
    ELSE Callback(phase, comps, lo) \o Slice(phase, comps, lo + 1, hi)

\* The fields the resets work on, as one record.
NodeState ==
    [flag |-> flag, scheduled |-> scheduled, comp_done |-> comp_done,
     id_done |-> id_done, entry_tags |-> entry_tags]

\* BLI_task_parallel_range(0, stop, graph, func, use_threading): with
\* threading the range is cut in two slices, one per worker, the first of k
\* indices; without, the first worker runs all of it.  `start` is the state
\* of the nodes when the reset was called.
BLI_task_parallel_range(phase, comps, use_threading, k, start) ==
    LET stop == RangeStop(phase)
        cut == IF use_threading THEN k ELSE stop
    IN  [phase |-> phase,
         slice |-> [w \in {Workers[1], Workers[2]} |->
                      IF w = Workers[1] THEN <<1, cut>> ELSE <<cut + 1, stop>>],
         prog |-> [w \in {Workers[1], Workers[2]} |->
                      IF w = Workers[1] THEN Slice(phase, comps, 1, cut)
                      ELSE Slice(phase, comps, cut + 1, stop)],
         tmp |-> [w \in {Workers[1], Workers[2]} |-> {}],
         log |-> {},
         start |-> start]

\* The state a flush of the entry tags E begins in, on graph g.
Tagged(g, cow, E) ==
    TagOperations(
        [components |-> Components, outlinks |-> g, assertion |-> NULL,
         entry_tags |-> {},
         flag |-> [op \in Operations |-> {}],
         scheduled |-> [op \in Operations |-> FALSE],
         comp_done |-> [c \in Components |-> COMPONENT_STATE_NONE],
         id_done |-> [id \in IDNodes |-> 0],
         id_orig_tag |-> [id \in IDNodes |->
             IF \E op \in E : CompOwner(OpOwner(op)) = id
             THEN {LIB_TAG_DOIT, "LIB_TAG_ID_RECALC"} ELSE {LIB_TAG_DOIT}],
         id_cow_tag |-> [id \in IDNodes |-> {}],
         use_copy_on_write |-> cow, queue |-> <<>>, op_node |-> NULL,
         editors_id_update |-> [id \in IDNodes |-> 0],
         recalc_tag |-> [id \in IDNodes |-> 0],
         recalc_data_tag |-> [id \in IDNodes |-> 0],
         cow_tag_update |-> [id \in IDNodes |-> 0],
         enqueued |-> [op \in Operations |-> 0],
         visits |-> [op \in Operations |-> 0],
         pose_pushes |-> [id \in IDNodes |-> 0]], E)

\* The state is the record s.
Is(s) ==
    /\ components = s.components
    /\ outlinks = s.outlinks
    /\ assertion = s.assertion
    /\ entry_tags = s.entry_tags
    /\ flag = s.flag
    /\ scheduled = s.scheduled
    /\ comp_done = s.comp_done
    /\ id_done = s.id_done
    /\ id_orig_tag = s.id_orig_tag
    /\ id_cow_tag = s.id_cow_tag
    /\ use_copy_on_write = s.use_copy_on_write
    /\ queue = s.queue
    /\ op_node = s.op_node
    /\ editors_id_update = s.editors_id_update
    /\ recalc_tag = s.recalc_tag
    /\ recalc_data_tag = s.recalc_data_tag
    /\ cow_tag_update = s.cow_tag_update
    /\ enqueued = s.enqueued
    /\ visits = s.visits
    /\ pose_pushes = s.pose_pushes

\* A flush has returned: the graphs of at most ParLinks relations, flushed
\* from at most ParTags entry tags that DEG_id_tag_update had set.
ParInit ==
    /\ \E g \in Graphs(ParLinks), cow \in BOOLEAN :
          \E E \in {S \in SUBSET {op \in Operations :
                          CompType(OpOwner(op)) # "DEG_NODE_TYPE_COPY_ON_WRITE"} :
                      Cardinality(S) \in 1..ParTags} :
              \E order \in Orders(E) :
                  /\ Is(FlushFrom(Tagged(g, cow, E), order))
                  /\ flag0 = Tagged(g, cow, E).flag
                  /\ entry_tags0 = E
                  /\ tags = Cardinality(E)
    /\ pc = "returned"
    /\ par = NoPool

\* Every variable the resets leave alone.
ResetFrame ==
    UNCHANGED <<graphVars, id_orig_tag, id_cow_tag, loopVars, assertion, tags,
                callVars, startVars, histVars>>

\* deg_graph_flush_updates is called again, the entry tags still set, and
\* flush_prepare begins the range over the operations.
ParPrepare ==
    /\ pc = "returned"
    /\ Cardinality(entry_tags) # 0
    /\ \E use_threading \in BOOLEAN, k \in 0..RangeStop("init_operations") :
          par' = BLI_task_parallel_range("init_operations", components,
                                         use_threading, k, NodeState)
    /\ pc' = "init_operations"
    /\ UNCHANGED <<nodeVars, entry_tags>>
    /\ ResetFrame

\* deg_graph_clear_tags is called and begins its range over the operations.
ParClear ==
    /\ pc = "returned"
    /\ \E use_threading \in BOOLEAN, k \in 0..RangeStop("clear_operations") :
          par' = BLI_task_parallel_range("clear_operations", components,
                                         use_threading, k, NodeState)
    /\ pc' = "clear_operations"
    /\ UNCHANGED <<nodeVars, entry_tags>>
    /\ ResetFrame

\* The value an access of worker w stores.
Stored(w, a) ==
    IF a.kind = "store" THEN a.val ELSE graph_clear_func(par.tmp[w])

\* A worker makes the next access of its slice.
WorkerStep(w) ==
    /\ pc \in {"init_operations", "init_ids", "clear_operations"}
    /\ par.prog[w] # <<>>
    /\ LET a == Head(par.prog[w])
           st == a.kind # "load"
       IN  /\ par' = [par EXCEPT
                        !.prog[w] = Tail(@),
                        !.tmp[w] = IF st THEN @ ELSE flag[a.node],
                        !.log = @ \cup {[worker |-> w,
                                         kind |-> IF st THEN "store" ELSE "load",
                                         var |-> a.var, node |-> a.node]}]
           /\ scheduled' = IF st /\ a.var = "scheduled"
                           THEN [scheduled EXCEPT ![a.node] = Stored(w, a)]
                           ELSE scheduled
           /\ id_done' = IF st /\ a.var = "id_done"
                         THEN [id_done EXCEPT ![a.node] = Stored(w, a)]
                         ELSE id_done
           /\ comp_done' = IF st /\ a.var = "comp_done"
                           THEN [comp_done EXCEPT ![a.node] = Stored(w, a)]
                           ELSE comp_done
           /\ flag' = IF st /\ a.var = "flag"
                      THEN [flag EXCEPT ![a.node] = Stored(w, a)]
                      ELSE flag
    /\ UNCHANGED <<pc, entry_tags>>
    /\ ResetFrame

\* Every worker is through with its slice.
Joined == \A i \in 1..Len(Workers) : par.prog[Workers[i]] = <<>>

\* The range over the operations is joined: flush_prepare begins the range
\* over the IDs.
JoinOperations ==
    /\ pc = "init_operations"
    /\ Joined
    /\ \E use_threading \in BOOLEAN, k \in 0..RangeStop("init_ids") :
          par' = BLI_task_parallel_range("init_ids", components,
                                         use_threading, k, par.start)
    /\ pc' = "init_ids"
    /\ UNCHANGED <<nodeVars, entry_tags>>
    /\ ResetFrame

\* The range over the IDs is joined: flush_prepare returns.
JoinIDs ==
    /\ pc = "init_ids"
    /\ Joined
    /\ pc' = "prepared"
    /\ UNCHANGED <<nodeVars, entry_tags, poolVars>>
    /\ ResetFrame

\* The range of deg_graph_clear_tags is joined: BLI_gset_clear, and return.
JoinClear ==
    /\ pc = "clear_operations"
    /\ Joined
    /\ entry_tags' = {}
    /\ pc' = "cleared"
    /\ UNCHANGED <<nodeVars, poolVars>>
    /\ ResetFrame

ParNext ==
    \/ ParPrepare
    \/ ParClear
    \/ \E i \in 1..Len(Workers) : WorkerStep(Workers[i])
    \/ JoinOperations
    \/ JoinIDs
    \/ JoinClear

\* The resets of a flushed graph, run on the pool.
ParSpec == ParInit /\ [][ParNext]_vars

\* The index of the node of an access in the array its range runs over: an
\* operation's own, an ID's own, and for a component that of its ID.
IndexOf(var, node) ==
    LET array == IF var \in {"id_done", "comp_done"} THEN graph_id_nodes
                 ELSE graph_operations
        key == IF var = "comp_done" THEN CompOwner(node) ELSE node
    IN  CHOOSE i \in 1..Len(array) : array[i] = key

\* No field of a node is stored to by one worker and accessed by another.
NoSharedAccess ==
    \A e1 \in par.log, e2 \in par.log :
        (e1.worker # e2.worker /\ e1.var = e2.var /\ e1.node = e2.node)
            => (e1.kind = "load" /\ e2.kind = "load")

\* A worker accesses the nodes of the indices of its slice only: the
\* operation, or the ID and the components it owns.
OwnNodesOnly ==
    \A e \in par.log :
        /\ IndexOf(e.var, e.node) >= par.slice[e.worker][1]
        /\ IndexOf(e.var, e.node) <= par.slice[e.worker][2]

\* C18: when the resets are run by the workers of the pool over disjoint
\* slices of the node arrays, every interleaving of their accesses ends, at
\* the join, in the state the sequential flush_prepare and
\* deg_graph_clear_tags end in; a worker accesses only the operations, or the
\* IDs and the components they own, of its slice, and no field of a node is
\* stored to by one worker and accessed by another.
C18_ParallelResetEquivalence ==
    (par.phase # "none") =>
        /\ NoSharedAccess
        /\ OwnNodesOnly
        /\ (pc = "prepared") => NodeState = flush_prepare(par.start)
        /\ (pc = "cleared") => NodeState = deg_graph_clear_tags(par.start)

\* C18 witness: the range over the IDs is joined, each of the two workers
\* has stored to the nodes of its slice, and the reset has changed the done
\* of a component and the scheduled of an operation.
C18_Witness ==
    /\ pc = "prepared"
    /\ \A i \in 1..Len(Workers) :
          \E e \in par.log : e.worker = Workers[i] /\ e.kind = "store"
    /\ \E c \in Components : par.start.comp_done[c] = COMPONENT_STATE_DONE
    /\ \E op \in Operations : par.start.scheduled[op]
    /\ NodeState # par.start

====
